---- MODULE Spec2Model ----
(***************************************************************************)
(* State-machine model of techcorp/ai-roast-meter.                         *)
(*                                                                         *)
(* Part 1: src/services/soundService.ts -- the shared audio context, the   *)
(* sound effects and the look-ahead background-music scheduler.            *)
(*                                                                         *)
(* Time is counted in integer units of 1/(1000*TEMPO) second, so that the  *)
(* quarter note 60/TEMPO s, the 0.1 s look-ahead, the 25 ms poll interval  *)
(* and the swing offsets of the sampled Math.random() values are all exact *)
(* integers.                                                               *)
(*                                                                         *)
(* Part 2: src/components/RoastForm.tsx -- the camera session of one       *)
(* mounted RoastForm: startCamera, stopCamera, capturePhoto, the tap to    *)
(* focus and the unmount cleanup, with their asynchronous continuations.   *)
(* Its clock counts milliseconds.                                          *)
(*                                                                         *)
(* Part 3: src/components/RoastForm.tsx:179-203 -- the mirrored draw of    *)
(* one video frame onto the canvas and its JPEG encoding.                  *)
(***************************************************************************)
EXTENDS Integers, Sequences, FiniteSets

VARIABLES
    platform,       \* the browser: "none" (no AudioContext class) or "audio"
    audioCtx,       \* soundService.ts:2   module variable, Null or the context's identity
    ctxState,       \* AudioContext.state of the context: "none" | "suspended" | "running"
    ctxCreated,     \* number of AudioContext objects constructed so far
    resuming,       \* a ctx.resume() request is in flight (its promise is not yet settled)
    musicEnabled,   \* soundService.ts:3
    nextNoteTime,   \* soundService.ts:4
    timerID,        \* soundService.ts:5   Null or the id returned by the last setTimeout
    timers,         \* the browser's pending setTimeout(scheduler, ...) callbacks: [id, due]
    nextTimer,      \* the id the next window.setTimeout call returns
    now,            \* wall clock
    currentTime,    \* ctx.currentTime, the engine clock (advances only while running)
    slots,          \* log of the scheduleNote calls: [time, kind, period]
    toggles,        \* number of toggleBackgroundMusic calls made (identifies the period)
    advances,       \* number of clock advances made
    lastToggle,     \* the last toggleBackgroundMusic call: [enable, outcome], outcome "none" before any
    last,           \* the last program step: [op, enable, outcome, caught]
    \* ---- RoastForm.tsx, the camera session
    hasMediaDevices, \* the browser has navigator.mediaDevices.getUserMedia
    mounted,        \* the RoastForm instance is mounted
    isCameraOpen,   \* RoastForm.tsx:18   useState
    isImageLoading, \* RoastForm.tsx:19   useState
    focusPoint,     \* RoastForm.tsx:22   useState: NoFocus or [x, y, visible]
    selectedFile,   \* RoastForm.tsx:16   useState: Null or CapturedFile
    previewUrl,     \* RoastForm.tsx:17   useState: Null or CapturedFile
    streamRef,      \* RoastForm.tsx:27   useRef: Null or the identity of the held MediaStream
    live,           \* the acquired streams that still have an active track
    nStreams,       \* number of streams getUserMedia has handed out
    starts,         \* the startCamera calls made: [pc, a1], a1 what the first attempt
                    \* of a call still in flight came to
    blobs,          \* number of pending canvas.toBlob callbacks
    camTimers,      \* the pending setTimeout callbacks of the form: [kind, id, left], left
                    \* the milliseconds until a "hide" callback is due; a "release" or a
                    \* "process" callback runs at any later moment, its left is not counted
    images,         \* number of File objects built from a blob since the camera view opened
    captures,       \* number of capturePhoto calls made
    shownFor,       \* milliseconds since the last tap that showed the indicator (counted up
                    \* to FocusHideDelay), -1 before any tap and after a stopCamera
    camLast,        \* the last step of the form: [op, e1, e2, msg, alerted, held, opening]
    textInput,      \* RoastForm.tsx:15   useState: the description, a sequence of characters
    \* ---- RoastForm.tsx:179-203, one captured frame
    frame,          \* the video frame: a sequence of rows of pixel values
    canvas,         \* the canvas bitmap after drawImage, NoBitmap before
    blob,           \* the decoded JPEG handed to the toBlob callback, NoBitmap before
    \* ---- App.tsx, the submission flow
    result,         \* App.tsx:12   useState: Null or the parsed response
    isLoading,      \* App.tsx:13   useState
    error,          \* App.tsx:14   useState: NoError or the message shown
    currentLanguage, \* App.tsx:16  useState
    appPc,          \* where the handleRoastSubmit call in flight waits: "idle" (no call),
                    \* "reading" (fileToBase64) or "requesting" (generateContent)
    requests,       \* number of backend requests issued since the last submission began
    submissions,    \* number of submissions made
    appLast,        \* the last step of the App: [op, err, out], err the message of the
                    \* error generateRoast rejected with ("none" when it did not), out what
                    \* the backend request came to (NoOutcome when the step saw none)
    \* ---- RoastForm.tsx:208-254, one tap on the camera view
    tapIn,          \* the tap: [caps, clientX, clientY, rect], caps what the track supports,
                    \* rect the bounding rectangle of the view; NoTap before any
    tapOut          \* the applyConstraints calls the tap made, in order

soundVars == <<platform, audioCtx, ctxState, ctxCreated, resuming, musicEnabled, nextNoteTime,
          timerID, timers, nextTimer, now, currentTime, slots, toggles, advances,
          lastToggle, last>>

camVars == <<hasMediaDevices, mounted, isCameraOpen, isImageLoading, focusPoint,
             selectedFile, previewUrl, streamRef, live, nStreams, starts, blobs, camTimers,
             images, captures, shownFor, camLast, textInput>>

shotVars == <<frame, canvas, blob>>

appVars == <<result, isLoading, error, currentLanguage, appPc, requests, submissions, appLast>>

tapVars == <<tapIn, tapOut>>

vars == <<soundVars, camVars, shotVars, appVars, tapVars>>

----------------------------------------------------------------------------
(* Bounds of the model *)

\* number of toggleBackgroundMusic calls explored
MaxToggles == 3
\* number of clock advances explored
MaxAdvances == 1
\* a long advance (a throttled or janky timer) is JankFactor poll intervals
JankFactor == 24

----------------------------------------------------------------------------
(* Program constants *)

Null == 0

\* RoastForm.tsx:22   useState(null): no focus indicator was ever set, or it was cleared
NoFocus == [x |-> -1, y |-> -1, visible |-> FALSE]
\* a bitmap that does not exist (yet)
NoBitmap == <<>>
\* a step of the form that no property looks at: no error, no message, no stream
NoStep == [op |-> "none", e1 |-> "none", e2 |-> "none", msg |-> "none", alerted |-> 0,
           held |-> Null, opening |-> FALSE]

\* RoastForm.tsx:16-27   a RoastForm as it is mounted: the useState and useRef initial
\* values, nothing acquired, nothing pending
CameraAtRest ==
    /\ mounted = TRUE
    /\ textInput = <<>>
    /\ isCameraOpen = FALSE
    /\ isImageLoading = FALSE
    /\ focusPoint = NoFocus
    /\ selectedFile = Null
    /\ previewUrl = Null
    /\ streamRef = Null
    /\ live = {}
    /\ nStreams = 0
    /\ starts = <<>>
    /\ blobs = 0
    /\ camTimers = {}
    /\ images = 0
    /\ captures = 0
    /\ shownFor = -1
    /\ camLast = NoStep

\* no frame is being captured
ShotAtRest ==
    /\ frame = NoBitmap
    /\ canvas = NoBitmap
    /\ blob = NoBitmap

\* App.tsx:14   useState(null) of the error message
NoError == "none"
\* no backend request has settled in this step
NoOutcome == [threw |-> FALSE, text |-> "none"]
\* a step of the App that no property looks at
NoAppStep == [op |-> "none", err |-> "none", out |-> NoOutcome]

\* App.tsx:12-17   the App as it is mounted: the useState initial values, no
\* submission made
AppAtRest ==
    /\ result = Null
    /\ isLoading = FALSE
    /\ error = NoError
    /\ currentLanguage = "English"
    /\ appPc = "idle"
    /\ requests = 0
    /\ submissions = 0
    /\ appLast = NoAppStep

\* no tap was made
NoTap == [caps |-> "none", clientX |-> 0, clientY |-> 0,
          rect |-> [left |-> 0, top |-> 0, width |-> 0, height |-> 0]]

TapAtRest ==
    /\ tapIn = NoTap
    /\ tapOut = <<>>

\* soundService.ts:6
TEMPO == 110
\* soundService.ts:7, milliseconds
LOOKAHEAD == 25

\* one second, in model time units
Sec == 1000 * TEMPO
\* one millisecond, in model time units
Ms == Sec \div 1000

\* soundService.ts:8   0.1 s
SCHEDULE_AHEAD_TIME == Sec \div 10
\* soundService.ts:274   the lead-in added to ctx.currentTime on enable, 0.1 s
LeadIn == Sec \div 10
\* soundService.ts:262   60.0 / TEMPO seconds
QuarterNote == (60 * Sec) \div TEMPO
\* soundService.ts:265   the setTimeout delay, LOOKAHEAD milliseconds
PollInterval == LOOKAHEAD * Ms

\* Math.random() returns r in [0,1); the sampled values, as <<numerator, denominator>>
RandomSamples == { <<0, 1>>, <<499, 500>> }

\* soundService.ts:217   Math.random() < 0.2
IsRest(r) == r[1] * 10 < 2 * r[2]

\* soundService.ts:261   (Math.random() * 0.05) - 0.025 seconds
Swing(r) == (r[1] * Sec) \div (20 * r[2]) - Sec \div 40

Effects == {"playClick", "playHover", "playCapture", "playCameraStart", "playCameraStop", "playSuccess"}

\* whether an audio-subsystem call (constructing the context, creating a node,
\* scheduling a parameter) may throw: any call of a platform that has audio
MayThrow == platform = "audio"

----------------------------------------------------------------------------
(* getCtx / resumeCtx *)

\* getCtx without the `if (AudioContextClass)` test of line 20: constructing an
\* undefined class throws
getCtx_noClassCheck ==
    IF audioCtx # Null
    THEN {[ctx |-> audioCtx, created |-> FALSE, threw |-> FALSE, state |-> ctxState, resumed |-> FALSE]}
    ELSE IF platform = "none"
    THEN {[ctx |-> Null, created |-> FALSE, threw |-> TRUE, state |-> ctxState, resumed |-> FALSE]}
    ELSE {[ctx |-> ctxCreated + 1, created |-> TRUE, threw |-> FALSE, state |-> s, resumed |-> FALSE]
            : s \in {"suspended", "running"}}
         \cup (IF MayThrow
               THEN {[ctx |-> Null, created |-> FALSE, threw |-> TRUE, state |-> ctxState, resumed |-> FALSE]}
               ELSE {})

\* getCtx without the `if (!audioCtx)` test of line 17: every call constructs a context
getCtx_noReuse ==
    IF platform = "none"
    THEN {[ctx |-> Null, created |-> FALSE, threw |-> FALSE, state |-> ctxState, resumed |-> FALSE]}
    ELSE {[ctx |-> ctxCreated + 1, created |-> TRUE, threw |-> FALSE, state |-> s, resumed |-> FALSE]
            : s \in {"suspended", "running"}}
         \cup (IF MayThrow
               THEN {[ctx |-> audioCtx, created |-> FALSE, threw |-> TRUE, state |-> ctxState, resumed |-> FALSE]}
               ELSE {})

\* soundService.ts:16-25   the outcomes of one getCtx() call
getCtx ==
    IF audioCtx # Null
    THEN {[ctx |-> audioCtx, created |-> FALSE, threw |-> FALSE, state |-> ctxState, resumed |-> FALSE]}
    ELSE IF platform = "none"
    THEN {[ctx |-> Null, created |-> FALSE, threw |-> FALSE, state |-> ctxState, resumed |-> FALSE]}
    ELSE {[ctx |-> ctxCreated + 1, created |-> TRUE, threw |-> FALSE, state |-> s, resumed |-> FALSE]
            : s \in {"suspended", "running"}}
         \cup (IF MayThrow
               THEN {[ctx |-> Null, created |-> FALSE, threw |-> TRUE, state |-> ctxState, resumed |-> FALSE]}
               ELSE {})

\* soundService.ts:27-33   getCtx(), then ctx.resume() when the context is suspended
resumeCtx ==
    {[g EXCEPT !.resumed = (~g.threw /\ g.ctx # Null /\ g.state = "suspended")] : g \in getCtx}

\* the effect of a getCtx/resumeCtx outcome on the context's state
CtxEffect(g) ==
    /\ audioCtx' = (IF g.threw THEN audioCtx ELSE g.ctx)
    /\ ctxState' = g.state
    /\ ctxCreated' = ctxCreated + (IF g.created THEN 1 ELSE 0)
    /\ resuming' = (resuming \/ g.resumed)

----------------------------------------------------------------------------
(* scheduleNote / scheduler *)

\* soundService.ts:212-249   what one scheduleNote(time) call does
scheduleNote(ctx) ==
    IF ctx = Null THEN {"noctx"}
    ELSE {IF IsRest(r) THEN "rest" ELSE "sound" : r \in RandomSamples}
         \cup (IF MayThrow THEN {"threw"} ELSE {})

\* the while loop of scheduler with a rest that skips the swing of line 261
RECURSIVE Drain_restSkipsSwing(_, _, _, _)
Drain_restSkipsSwing(ctx, nnt, horizon, emitted) ==
    IF nnt < horizon
    THEN UNION { IF k = "threw"
                 THEN {[nnt |-> nnt, slots |-> Append(emitted, [time |-> nnt, kind |-> k]), threw |-> TRUE]}
                 ELSE UNION { Drain_restSkipsSwing(ctx,
                                    nnt + QuarterNote + (IF k = "rest" THEN 0 ELSE Swing(r)),
                                    horizon, Append(emitted, [time |-> nnt, kind |-> k]))
                              : r \in RandomSamples }
               : k \in scheduleNote(ctx) }
    ELSE {[nnt |-> nnt, slots |-> emitted, threw |-> FALSE]}

\* soundService.ts:257-263   the while loop of scheduler
RECURSIVE Drain(_, _, _, _)
Drain(ctx, nnt, horizon, emitted) ==
    IF nnt < horizon
    THEN UNION { IF k = "threw"
                 THEN {[nnt |-> nnt, slots |-> Append(emitted, [time |-> nnt, kind |-> k]), threw |-> TRUE]}
                 ELSE UNION { Drain(ctx, nnt + QuarterNote + Swing(r), horizon,
                                    Append(emitted, [time |-> nnt, kind |-> k]))
                              : r \in RandomSamples }
               : k \in scheduleNote(ctx) }
    ELSE {[nnt |-> nnt, slots |-> emitted, threw |-> FALSE]}

\* scheduler without the `!musicEnabled` test of line 255
scheduler_noEnabledCheck(ctx, enabled, nnt, clock) ==
    IF ctx = Null
    THEN {[ran |-> FALSE, nnt |-> nnt, slots |-> <<>>, threw |-> FALSE]}
    ELSE {[ran |-> TRUE, nnt |-> o.nnt, slots |-> o.slots, threw |-> o.threw]
            : o \in Drain(ctx, nnt, clock + SCHEDULE_AHEAD_TIME, <<>>)}

\* scheduler with a look-ahead window twice as long as SCHEDULE_AHEAD_TIME
scheduler_wideWindow(ctx, enabled, nnt, clock) ==
    IF ctx = Null \/ ~enabled
    THEN {[ran |-> FALSE, nnt |-> nnt, slots |-> <<>>, threw |-> FALSE]}
    ELSE {[ran |-> TRUE, nnt |-> o.nnt, slots |-> o.slots, threw |-> o.threw]
            : o \in Drain(ctx, nnt, clock + 2 * SCHEDULE_AHEAD_TIME, <<>>)}

\* soundService.ts:251-266   the outcomes of the body of scheduler, up to the setTimeout
scheduler(ctx, enabled, nnt, clock) ==
    IF ctx = Null \/ ~enabled
    THEN {[ran |-> FALSE, nnt |-> nnt, slots |-> <<>>, threw |-> FALSE]}
    ELSE {[ran |-> TRUE, nnt |-> o.nnt, slots |-> o.slots, threw |-> o.threw]
            : o \in Drain(ctx, nnt, clock + SCHEDULE_AHEAD_TIME, <<>>)}

\* the slots of one scheduler run, stamped with the running period they belong to
Stamp(s, p) == [i \in 1..Len(s) |-> [time |-> s[i].time, kind |-> s[i].kind, period |-> p]]

\* a scheduler run without the setTimeout of line 265
RunScheduler_noTimer(o, pend, p) ==
    /\ nextNoteTime' = o.nnt
    /\ slots' = slots \o Stamp(o.slots, p)
    /\ UNCHANGED <<timerID, nextTimer>>
    /\ timers' = pend

\* soundService.ts:251-266   the state change of one scheduler() run with outcome o,
\* the pending callbacks being pend before it
RunScheduler(o, pend, p) ==
    /\ nextNoteTime' = o.nnt
    /\ slots' = slots \o Stamp(o.slots, p)
    /\ IF o.ran /\ ~o.threw
       THEN /\ timerID' = nextTimer
            /\ timers' = pend \cup {[id |-> nextTimer, due |-> now + PollInterval]}
            /\ nextTimer' = nextTimer + 1
       ELSE /\ timerID' = timerID
            /\ timers' = pend
            /\ nextTimer' = nextTimer

----------------------------------------------------------------------------
(* Operations *)

\* soundService.ts:268-283   toggleBackgroundMusic(enable)
toggleBackgroundMusic(enable) ==
    /\ toggles < MaxToggles
    /\ toggles' = toggles + 1
    /\ UNCHANGED <<platform, now, currentTime, advances>>
    /\ UNCHANGED <<camVars, shotVars, appVars, tapVars>>
    /\ \E g \in resumeCtx :
         /\ CtxEffect(g)
         /\ IF g.threw
            THEN /\ UNCHANGED <<musicEnabled, nextNoteTime, timerID, timers, nextTimer, slots>>
                 /\ last' = [op |-> "toggle", enable |-> enable, outcome |-> "threw", caught |-> FALSE]
            ELSE /\ musicEnabled' = enable
                 /\ IF enable
                    THEN IF g.ctx # Null
                         THEN \E o \in scheduler(g.ctx, TRUE, currentTime + LeadIn, currentTime) :
                                /\ RunScheduler(o, timers, toggles + 1)
                                /\ last' = [op |-> "toggle", enable |-> enable,
                                            outcome |-> IF o.threw THEN "threw" ELSE "returned",
                                            caught |-> FALSE]
                         ELSE /\ UNCHANGED <<nextNoteTime, timerID, timers, nextTimer, slots>>
                              /\ last' = [op |-> "toggle", enable |-> enable, outcome |-> "returned",
                                          caught |-> FALSE]
                    ELSE /\ IF timerID # Null
                            THEN /\ timers' = {t \in timers : t.id # timerID}
                                 /\ timerID' = Null
                            ELSE UNCHANGED <<timers, timerID>>
                         /\ UNCHANGED <<nextNoteTime, nextTimer, slots>>
                         /\ last' = [op |-> "toggle", enable |-> enable, outcome |-> "returned",
                                     caught |-> FALSE]
    /\ lastToggle' = [enable |-> enable, outcome |-> last'.outcome]

\* soundService.ts:251-266   a pending setTimeout(scheduler, LOOKAHEAD) callback fires
Tick ==
    \E t \in timers :
      /\ t.due <= now
      /\ UNCHANGED <<platform, now, currentTime, advances, musicEnabled, toggles, lastToggle>>
      /\ UNCHANGED <<camVars, shotVars, appVars, tapVars>>
      /\ \E g \in getCtx :
           /\ CtxEffect(g)
           /\ IF g.threw
              THEN /\ timers' = timers \ {t}
                   /\ UNCHANGED <<nextNoteTime, timerID, nextTimer, slots>>
                   /\ last' = [op |-> "tick", enable |-> FALSE, outcome |-> "threw",
                               caught |-> FALSE]
              ELSE \E o \in scheduler(g.ctx, musicEnabled, nextNoteTime, currentTime) :
                     /\ RunScheduler(o, timers \ {t}, toggles)
                     /\ last' = [op |-> "tick", enable |-> FALSE,
                                 outcome |-> IF o.threw THEN "threw" ELSE "returned",
                                 caught |-> FALSE]

\* a sound effect without its try/catch: an error of the audio subsystem escapes
PlayEffect_noCatch(kind) ==
    /\ UNCHANGED <<platform, now, currentTime, advances, musicEnabled, nextNoteTime, timerID,
                   timers, nextTimer, slots, toggles, lastToggle>>
    /\ UNCHANGED <<camVars, shotVars, appVars, tapVars>>
    /\ \E g \in resumeCtx :
         /\ CtxEffect(g)
         /\ IF g.threw
            THEN last' = [op |-> "effect", enable |-> FALSE, outcome |-> "threw", caught |-> FALSE]
            ELSE IF g.ctx = Null
            THEN last' = [op |-> "effect", enable |-> FALSE, outcome |-> "returned", caught |-> FALSE]
            ELSE \E failed \in (IF MayThrow THEN BOOLEAN ELSE {FALSE}) :
                   last' = [op |-> "effect", enable |-> FALSE,
                            outcome |-> IF failed THEN "threw" ELSE "returned", caught |-> FALSE]

\* soundService.ts:37-208   playClick, playHover, playCapture, playCameraStart,
\* playCameraStop, playSuccess share one skeleton:
\* try { ctx = resumeCtx(); if (!ctx) return; build and start the graph } catch {}
Effect(kind) ==
    /\ UNCHANGED <<platform, now, currentTime, advances, musicEnabled, nextNoteTime, timerID,
                   timers, nextTimer, slots, toggles, lastToggle>>
    /\ \E g \in resumeCtx :
         /\ CtxEffect(g)
         /\ IF g.threw
            THEN last' = [op |-> "effect", enable |-> FALSE, outcome |-> "returned", caught |-> TRUE]
            ELSE IF g.ctx = Null
            THEN last' = [op |-> "effect", enable |-> FALSE, outcome |-> "returned", caught |-> FALSE]
            ELSE \E failed \in (IF MayThrow THEN BOOLEAN ELSE {FALSE}) :
                   last' = [op |-> "effect", enable |-> FALSE, outcome |-> "returned",
                            caught |-> failed]

\* a sound effect that keeps its start time in the scheduler's nextNoteTime
PlayEffect_usesNextNoteTime(kind) ==
    /\ UNCHANGED <<platform, now, currentTime, advances, musicEnabled, timerID,
                   timers, nextTimer, slots, toggles, lastToggle>>
    /\ nextNoteTime' = currentTime
    /\ UNCHANGED <<camVars, shotVars, appVars, tapVars>>
    /\ \E g \in resumeCtx :
         /\ CtxEffect(g)
         /\ last' = [op |-> "effect", enable |-> FALSE, outcome |-> "returned",
                     caught |-> g.threw]

\* a sound effect played on its own (a button's onClick, onMouseEnter)
PlayEffect(kind) ==
    /\ Effect(kind)
    /\ UNCHANGED <<camVars, shotVars, appVars, tapVars>>

\* soundService.ts:30   the ctx.resume() request settles: resolved (the context runs) or
\* rejected (console.error, the context stays as it is)
ResumeSettle ==
    /\ resuming
    /\ resuming' = FALSE
    /\ \/ ctxState' = "running"
       \/ ctxState' = ctxState
    /\ UNCHANGED <<platform, audioCtx, ctxCreated, musicEnabled, nextNoteTime, timerID, timers,
                   nextTimer, now, currentTime, slots, toggles, advances,
          lastToggle, last>>
    /\ UNCHANGED <<camVars, shotVars, appVars, tapVars>>

\* time passes: the wall clock always, the engine clock while the context is running
Advance(d) ==
    /\ advances < MaxAdvances
    /\ advances' = advances + 1
    /\ now' = now + d
    /\ currentTime' = (IF ctxState = "running" THEN currentTime + d ELSE currentTime)
    /\ UNCHANGED <<platform, audioCtx, ctxState, ctxCreated, resuming, musicEnabled, nextNoteTime,
                   timerID, timers, nextTimer, slots, toggles, lastToggle, last>>
    /\ UNCHANGED <<camVars, shotVars, appVars, tapVars>>

----------------------------------------------------------------------------
(* Specification *)

Init ==
    /\ platform \in {"none", "audio"}
    /\ audioCtx = Null
    /\ ctxState = "none"
    /\ ctxCreated = 0
    /\ resuming = FALSE
    /\ musicEnabled = FALSE
    /\ nextNoteTime = 0
    /\ timerID = Null
    /\ timers = {}
    /\ nextTimer = 1
    /\ now = 0
    /\ currentTime = 0
    /\ slots = <<>>
    /\ toggles = 0
    /\ advances = 0
    /\ lastToggle = [enable |-> FALSE, outcome |-> "none"]
    /\ last = [op |-> "init", enable |-> FALSE, outcome |-> "returned", caught |-> FALSE]
    /\ hasMediaDevices = TRUE
    /\ CameraAtRest
    /\ ShotAtRest
    /\ AppAtRest
    /\ TapAtRest

Next ==
    \/ \E enable \in BOOLEAN : toggleBackgroundMusic(enable)
    \/ Tick
    \/ \E kind \in Effects : PlayEffect(kind)
    \/ ResumeSettle
    \/ \E d \in {PollInterval, JankFactor * PollInterval} : Advance(d)

Spec == Init /\ [][Next]_vars

----------------------------------------------------------------------------
(* Type invariant *)

TypeOK ==
    /\ platform \in {"none", "audio"}
    /\ audioCtx \in Nat
    /\ ctxState \in {"none", "suspended", "running"}
    /\ ctxCreated \in Nat
    /\ resuming \in BOOLEAN
    /\ musicEnabled \in BOOLEAN
    /\ nextNoteTime \in Nat
    /\ timerID \in Nat
    /\ \A t \in timers : t.id \in 1..(nextTimer - 1) /\ t.due \in Nat
    /\ now \in Nat /\ currentTime \in 0..now
    /\ \A i \in 1..Len(slots) : slots[i].kind \in {"rest", "sound", "threw"}
    /\ toggles \in 0..MaxToggles
    /\ advances \in 0..MaxAdvances
    /\ last.op \in {"init", "toggle", "tick", "effect"}
    /\ last.outcome \in {"returned", "threw"}
    /\ lastToggle.outcome \in {"none", "returned", "threw"}

----------------------------------------------------------------------------
(* Claims about the music scheduler and the sound effects *)

\* the bound of the swing offset, 0.025 s (soundService.ts:261)
MaxSwing == Sec \div 40

\* C1: at most one scheduler callback is pending at any time, whatever the sequence of
\* toggleBackgroundMusic calls and timer firings; toggleBackgroundMusic(true) while
\* running starts no second timer chain.
C1_AtMostOnePending == Cardinality(timers) <= 1

\* C2: whenever toggleBackgroundMusic(false) has returned, no scheduler callback is pending.
C2_NoPendingAfterOff ==
    (last.op = "toggle" /\ ~last.enable /\ last.outcome = "returned") => timers = {}

\* C3: after toggleBackgroundMusic(false) has returned, and until the next toggle call
\* with enable = true, no step emits a note slot, whichever callbacks fire.
C3_NoSlotWhileOff ==
    [][ ( /\ lastToggle = [enable |-> FALSE, outcome |-> "returned"]
          /\ lastToggle' = [enable |-> FALSE, outcome |-> "returned"] )
        => slots' = slots ]_vars

\* C3 witness: a scheduler callback has fired after toggleBackgroundMusic(false)
\* returned, in a run that emitted slots before.
C3_Witness ==
    /\ last.op = "tick"
    /\ lastToggle = [enable |-> FALSE, outcome |-> "returned"]
    /\ Len(slots) > 0

\* C4: between operations, timerID is non-null iff a scheduler callback is pending iff
\* the last toggleBackgroundMusic call was made with enable = true.
C4_TimerIffPendingIffOn ==
    /\ (timerID # Null) <=> (timers # {})
    /\ (timers # {}) <=> (lastToggle.outcome # "none" /\ lastToggle.enable)

\* C5: the times passed to scheduleNote are strictly increasing over the whole run:
\* each emitted slot time is greater than every slot time emitted before it.
C5_SlotsStrictlyIncreasing ==
    \A i, j \in 1..Len(slots) : i < j => slots[i].time < slots[j].time

\* C6: within one running period the gap between consecutively emitted slot times lies
\* in [QuarterNote - MaxSwing, QuarterNote + MaxSwing].
C6_GapWithinSwing ==
    \A i \in 1..(Len(slots) - 1) :
        slots[i].period = slots[i + 1].period =>
            /\ slots[i + 1].time - slots[i].time >= QuarterNote - MaxSwing
            /\ slots[i + 1].time - slots[i].time <= QuarterNote + MaxSwing

\* C7: on a platform without an audio context, enabling the music and letting time
\* pass emits no note, leaves no timer chain pending and raises no error.
C7_NoAudioSilent ==
    platform = "none" =>
        /\ slots = <<>>
        /\ timers = {} /\ timerID = Null
        /\ audioCtx = Null
        /\ last.outcome = "returned"

\* C7 witness: no audio context, the music toggled on, and time has passed.
C7_Witness ==
    /\ platform = "none"
    /\ musicEnabled
    /\ lastToggle = [enable |-> TRUE, outcome |-> "returned"]
    /\ advances > 0

\* C8: an error of the audio subsystem during toggleBackgroundMusic or during a
\* scheduler tick never propagates to the caller nor escapes the timer callback.
C8_SchedulerErrorsSuppressed ==
    last.op \in {"toggle", "tick"} => last.outcome = "returned"

\* C9: every sound-effect call returns normally; without audio capability it is a
\* no-op, and an error thrown by the audio subsystem during the call is caught.
C9_EffectsNeverThrow ==
    /\ [](last.op = "effect" => last.outcome = "returned")
    /\ [][ (last'.op = "effect" /\ platform = "none") =>
              UNCHANGED <<audioCtx, ctxState, ctxCreated, resuming, musicEnabled,
                          nextNoteTime, timerID, timers, slots>> ]_vars

\* C9 witness: a sound effect during which the audio subsystem threw has returned.
C9_Witness == last.op = "effect" /\ last.caught /\ last.outcome = "returned"

\* C10: at most one audio context is ever created; once created it is the one every
\* later call uses, never replaced and never destroyed.
C10_SingleAudioContext ==
    /\ [](ctxCreated <= 1 /\ (audioCtx # Null => ctxState \in {"suspended", "running"}))
    /\ [][ audioCtx # Null => (audioCtx' = audioCtx /\ ctxCreated' = ctxCreated) ]_vars

\* C10 witness: the context exists and has served two toggles and then a sound effect.
C10_Witness ==
    /\ audioCtx # Null
    /\ ctxCreated = 1
    /\ toggles >= 2
    /\ last.op = "effect"

----------------------------------------------------------------------------
(* Part 2: the camera session of RoastForm.tsx *)

\* number of startCamera calls explored
MaxStarts == 2
\* number of capturePhoto calls explored
MaxCaptures == 2

\* RoastForm.tsx:223   how long a tap's setTimeout waits before hiding the indicator,
\* milliseconds
FocusHideDelay == 600
\* the clock advances explored: half the indicator's time, and all of it
CamSteps == {FocusHideDelay \div 2, FocusHideDelay}

\* RoastForm.tsx:193   the File built from a blob
CapturedFile == 1

\* the points tapped, in pixels from the top-left corner of the video element
TapPoints == { <<10, 10>>, <<20, 30>> }

\* what track.getCapabilities tells of a track: no such method, no focusMode, or the
\* focus modes of the camera
FocusCaps == {"noapi", "nofocus", "other", "continuous", "manual", "both"}

\* the ways getUserMedia rejects that are explored: the camera is in use, the
\* permission is denied, and an error of no name the form knows
AcquisitionErrors ==
    { [name |-> "NotReadableError", message |-> "Could not start video source"],
      [name |-> "NotAllowedError",  message |-> "Permission denied"],
      [name |-> "TypeError",        message |-> ""] }

\* RoastForm.tsx:122   new Error("Could not initialize any camera source.")
NoSourceError == [name |-> "Error", message |-> "Could not initialize any camera source."]

\* RoastForm.tsx:148   err.message.includes("Could not start video source"), over the
\* messages of the model
IncludesCouldNotStart(message) == message \in {"Could not start video source"}

\* RoastForm.tsx:145-160   the message chosen for a caught error (its heading)
ErrorMessage(err) ==
    IF err.name = "NotReadableError" \/ IncludesCouldNotStart(err.message)
    THEN "Camera Busy or Not Readable"
    ELSE IF err.name = "NotAllowedError" \/ err.name = "PermissionDeniedError"
    THEN "Camera Permission Denied"
    ELSE IF err.name = "NotFoundError" \/ err.name = "DevicesNotFoundError"
    THEN "No Camera Found"
    ELSE IF err.name = "OverconstrainedError"
    THEN "Camera Constraints Error"
    ELSE IF err.name = "AbortError"
    THEN "Hardware Error"
    ELSE IF err.name = "SecurityError"
    THEN "Security Error"
    ELSE "Could not access camera."

\* RoastForm.tsx:96
UnsupportedMessage == "Camera API is not supported in this browser."

\* a React state setter: it changes the state of a mounted component only
SetState(cur, new) == IF mounted THEN new ELSE cur

\* an attempt of a startCamera call was made and rejected
Failed(a) == a \notin {"none", "pending", "ok"}

\* the startCamera calls that have not run to their end
InFlight == {i \in 1..Len(starts) : starts[i].pc # "done"}

\* the startCamera calls that have not yet opened the camera view or given up
Opening == {i \in 1..Len(starts) : starts[i].pc \in {"delay", "await1", "await2"}}

\* a startCamera call that has run to its end
DoneCall == [pc |-> "done", a1 |-> "none"]

\* the camera steps leave the sound service and the captured frame alone: the sound
\* effects they call (playClick, playCameraStart, ...) return normally whatever the
\* audio subsystem does, and touch no state of the form
CameraOnly == UNCHANGED <<soundVars, shotVars, appVars, tapVars, hasMediaDevices, textInput>>

----------------------------------------------------------------------------
(* The camera operations *)

\* stopCamera that leaves the focus indicator as it is
stopCamera_keepsIndicator ==
    /\ live' = live \ {streamRef}
    /\ streamRef' = Null
    /\ isCameraOpen' = SetState(isCameraOpen, FALSE)
    /\ focusPoint' = focusPoint
    /\ shownFor' = -1

\* RoastForm.tsx:72-81   stopCamera(): the tracks of the held stream are stopped, the
\* ref is cleared, the camera view and the focus indicator are dismissed
stopCamera ==
    /\ live' = live \ {streamRef}
    /\ streamRef' = Null
    /\ isCameraOpen' = SetState(isCameraOpen, FALSE)
    /\ focusPoint' = SetState(focusPoint, NoFocus)
    /\ shownFor' = -1

\* RoastForm.tsx:83-93   startCamera(), up to its first await; the Camera Option that
\* calls it (455-458) is rendered while no camera view, no processing view and no
\* preview is (342, 412, 436)
startCamera ==
    /\ mounted /\ ~isCameraOpen /\ ~isImageLoading /\ previewUrl = Null
    /\ Len(starts) < MaxStarts
    /\ live' = live \ {streamRef}
    /\ streamRef' = Null
    /\ starts' = Append(starts, [pc |-> "delay", a1 |-> "none"])
    /\ camTimers' = camTimers \cup {[kind |-> "release", id |-> Len(starts) + 1, left |-> 0]}
    /\ camLast' = [NoStep EXCEPT !.op = "startCamera", !.opening = (Opening # {})]
    /\ UNCHANGED <<mounted, isCameraOpen, isImageLoading, focusPoint, selectedFile, previewUrl,
                   nStreams, blobs, images, captures, shownFor>>
    /\ CameraOnly

\* startCamera without the capability test of line 95: the request is issued on
\* every platform
startCamera_noCapabilityCheck(i) ==
    \E t \in camTimers :
      /\ t.kind = "release" /\ t.id = i
      /\ camTimers' = camTimers \ {t}
      /\ starts' = [starts EXCEPT ![i] = [pc |-> "await1", a1 |-> "pending"]]
      /\ camLast' = [NoStep EXCEPT !.op = "request1"]
      /\ UNCHANGED <<mounted, isCameraOpen, isImageLoading, focusPoint, selectedFile,
                     previewUrl, streamRef, live, nStreams, blobs, images, captures,
                     shownFor>>
      /\ CameraOnly

\* RoastForm.tsx:93-106   the wait is over: without the camera API one alert and the
\* call is over, with it the front-camera request is issued
startCamera_afterDelay(i) ==
    \E t \in camTimers :
      /\ t.kind = "release" /\ t.id = i
      /\ camTimers' = camTimers \ {t}
      /\ IF hasMediaDevices
         THEN /\ starts' = [starts EXCEPT ![i] = [pc |-> "await1", a1 |-> "pending"]]
              /\ camLast' = [NoStep EXCEPT !.op = "request1"]
         ELSE /\ starts' = [starts EXCEPT ![i] = DoneCall]
              /\ camLast' = [NoStep EXCEPT !.op = "unsupported", !.msg = UnsupportedMessage,
                                           !.alerted = 1]
      /\ UNCHANGED <<mounted, isCameraOpen, isImageLoading, focusPoint, selectedFile,
                     previewUrl, streamRef, live, nStreams, blobs, images, captures,
                     shownFor>>
      /\ CameraOnly

\* RoastForm.tsx:125-141   a stream was obtained by call i, its attempts having ended
\* a1 and a2: the stream is stored, the camera view opens, and continuous focus is
\* requested of a track that tells a focus mode
CameraOpened(i, a1, a2) ==
    /\ nStreams' = nStreams + 1
    /\ live' = live \cup {nStreams + 1}
    /\ streamRef' = nStreams + 1
    /\ isCameraOpen' = SetState(isCameraOpen, TRUE)
    /\ images' = 0
    /\ \E pc \in {IF caps \in {"other", "continuous", "manual", "both"} THEN "awaitFocus" ELSE "done"
                   : caps \in FocusCaps} :
         starts' = [starts EXCEPT ![i] = [pc |-> pc, a1 |-> "none"]]
    /\ camLast' = [NoStep EXCEPT !.op = "opened", !.e1 = a1, !.e2 = a2, !.held = streamRef]
    /\ UNCHANGED <<mounted, isImageLoading, focusPoint, selectedFile, previewUrl, blobs,
                   camTimers, captures, shownFor>>
    /\ CameraOnly

\* a failing startCamera that alerts but does not stop the camera
AllAttemptsFailed_noStop(i, e) ==
    /\ starts' = [starts EXCEPT ![i] = DoneCall]
    /\ camLast' = [NoStep EXCEPT !.op = "startFailed",
                                 !.e1 = IF starts[i].pc = "await1" THEN e.name ELSE starts[i].a1,
                                 !.e2 = IF starts[i].pc = "await1" THEN "none" ELSE e.name,
                                 !.msg = ErrorMessage(NoSourceError),
                                 !.alerted = 1,
                                 !.held = streamRef]
    /\ UNCHANGED <<mounted, isCameraOpen, isImageLoading, focusPoint, selectedFile, previewUrl,
                   streamRef, live, nStreams, blobs, camTimers, images, captures, shownFor>>
    /\ CameraOnly

\* RoastForm.tsx:120-123, 143-164   call i got no stream, its last request being
\* rejected with e: the error thrown at line 122 is caught and classified, its message
\* alerted, and the camera is stopped
AllAttemptsFailed(i, e) ==
    /\ stopCamera
    /\ starts' = [starts EXCEPT ![i] = DoneCall]
    /\ camLast' = [NoStep EXCEPT !.op = "startFailed",
                                 !.e1 = IF starts[i].pc = "await1" THEN e.name ELSE starts[i].a1,
                                 !.e2 = IF starts[i].pc = "await1" THEN "none" ELSE e.name,
                                 !.msg = ErrorMessage(NoSourceError),
                                 !.alerted = 1,
                                 !.held = streamRef]
    /\ UNCHANGED <<mounted, isImageLoading, selectedFile, previewUrl, nStreams, blobs,
                   camTimers, images, captures>>
    /\ CameraOnly

\* a startCamera that gives up when the front camera is refused
FirstAttemptFailed_noFallback(i, e) ==
    AllAttemptsFailed(i, e)

\* RoastForm.tsx:109-119   the front-camera request of call i was rejected with e: a
\* console.warn, and the request without constraints is issued
FirstAttemptFailed(i, e) ==
    /\ starts' = [starts EXCEPT ![i] = [pc |-> "await2", a1 |-> e.name]]
    /\ camLast' = [NoStep EXCEPT !.op = "request2", !.e1 = e.name]
    /\ UNCHANGED <<mounted, isCameraOpen, isImageLoading, focusPoint, selectedFile, previewUrl,
                   streamRef, live, nStreams, blobs, camTimers, images, captures, shownFor>>
    /\ CameraOnly

\* RoastForm.tsx:104-112   getUserMedia({video: {facingMode: "user"}}) settles
startCamera_attempt1(i) ==
    /\ starts[i].pc = "await1"
    /\ \/ CameraOpened(i, "ok", "none")
       \/ \E e \in AcquisitionErrors : FirstAttemptFailed(i, e)

\* RoastForm.tsx:113-123   getUserMedia({video: true}) settles
startCamera_attempt2(i) ==
    /\ starts[i].pc = "await2"
    /\ \/ CameraOpened(i, starts[i].a1, "ok")
       \/ \E e \in AcquisitionErrors : AllAttemptsFailed(i, e)

\* startCamera without the try/catch of lines 131-141: a rejected focus request
\* reaches the catch block of line 143, which alerts and stops the camera
startCamera_focusNotCaught(i, ok) ==
    /\ starts[i].pc = "awaitFocus"
    /\ starts' = [starts EXCEPT ![i] = DoneCall]
    /\ IF ok
       THEN /\ camLast' = NoStep
            /\ UNCHANGED <<isCameraOpen, focusPoint, streamRef, live, shownFor>>
       ELSE /\ stopCamera
            /\ camLast' = [NoStep EXCEPT !.op = "focusFailed", !.alerted = 1,
                                         !.msg = "Could not access camera."]
    /\ UNCHANGED <<mounted, isImageLoading, selectedFile, previewUrl, nStreams, blobs,
                   camTimers, images, captures>>
    /\ CameraOnly

\* RoastForm.tsx:135-141   applyConstraints settles: resolved (ok), or rejected and
\* ignored
startCamera_focusSettled(i, ok) ==
    /\ starts[i].pc = "awaitFocus"
    /\ starts' = [starts EXCEPT ![i] = DoneCall]
    /\ camLast' = (IF ok THEN NoStep ELSE [NoStep EXCEPT !.op = "focusFailed"])
    /\ UNCHANGED <<mounted, isCameraOpen, isImageLoading, focusPoint, selectedFile, previewUrl,
                   streamRef, live, nStreams, blobs, camTimers, images, captures, shownFor>>
    /\ CameraOnly

\* RoastForm.tsx:167-170   handleStopCamera(), the Cancel button of the camera view (391)
handleStopCamera ==
    /\ mounted /\ isCameraOpen
    /\ stopCamera
    /\ camLast' = [NoStep EXCEPT !.op = "handleStopCamera", !.held = streamRef]
    /\ UNCHANGED <<mounted, isImageLoading, selectedFile, previewUrl, nStreams, starts, blobs,
                   camTimers, images, captures>>
    /\ CameraOnly

\* RoastForm.tsx:172-189   capturePhoto(), the Capture button of the camera view (403):
\* the frame is drawn and canvas.toBlob is asked to encode it; the video and the canvas
\* exist while the camera view is rendered
capturePhoto ==
    /\ mounted /\ isCameraOpen
    /\ captures < MaxCaptures
    /\ captures' = captures + 1
    /\ blobs' = blobs + 1
    /\ camLast' = [NoStep EXCEPT !.op = "capturePhoto", !.opening = (Opening # {})]
    /\ UNCHANGED <<mounted, isCameraOpen, isImageLoading, focusPoint, selectedFile, previewUrl,
                   streamRef, live, nStreams, starts, camTimers, images, shownFor>>
    /\ CameraOnly

\* the least number that names none of the pending "process" callbacks
FreshProcessId ==
    CHOOSE k \in 1..(Cardinality(camTimers) + 1) :
      /\ [kind |-> "process", id |-> k, left |-> 0] \notin camTimers
      /\ \A j \in 1..(k - 1) : [kind |-> "process", id |-> j, left |-> 0] \in camTimers

\* RoastForm.tsx:189-203   a toBlob callback runs, with a blob or with null (a canvas
\* of no width or height, an encoder that fails)
toBlobCallback ==
    /\ blobs > 0
    /\ blobs' = blobs - 1
    /\ \/ /\ isImageLoading' = SetState(isImageLoading, TRUE)
          /\ stopCamera
          /\ selectedFile' = SetState(selectedFile, CapturedFile)
          /\ images' = images + 1
          /\ camTimers' = camTimers \cup {[kind |-> "process", id |-> FreshProcessId,
                                           left |-> 0]}
          /\ camLast' = [NoStep EXCEPT !.op = "blob", !.held = streamRef]
       \/ /\ camLast' = [NoStep EXCEPT !.op = "noBlob"]
          /\ UNCHANGED <<isImageLoading, live, streamRef, isCameraOpen, focusPoint, shownFor,
                         selectedFile, images, camTimers>>
    /\ UNCHANGED <<mounted, previewUrl, nStreams, starts, captures>>
    /\ CameraOnly

\* RoastForm.tsx:198-201   the processing delay of a captured photo is over
processingDone ==
    \E t \in camTimers :
      /\ t.kind = "process"
      /\ camTimers' = camTimers \ {t}
      /\ previewUrl' = SetState(previewUrl, CapturedFile)
      /\ isImageLoading' = SetState(isImageLoading, FALSE)
      /\ camLast' = NoStep
      /\ UNCHANGED <<mounted, isCameraOpen, focusPoint, selectedFile, streamRef, live, nStreams,
                     starts, blobs, images, captures, shownFor>>
      /\ CameraOnly

\* RoastForm.tsx:54-61   clearFile(), the button over the preview (476)
clearFile ==
    /\ mounted /\ ~isCameraOpen /\ ~isImageLoading /\ previewUrl # Null
    /\ selectedFile' = Null
    /\ previewUrl' = Null
    /\ camLast' = NoStep
    /\ UNCHANGED <<mounted, isCameraOpen, isImageLoading, focusPoint, streamRef, live,
                   nStreams, starts, blobs, camTimers, images, captures, shownFor>>
    /\ CameraOnly

\* RoastForm.tsx:208-254   handleVideoClick(e), a tap at p on the video (345): the
\* indicator is shown at p, a timer is set to hide it and, when the track tells a
\* focus mode the form asks for (234, 240: asked), a focus request is left pending.
\* Callbacks due at the same instant are counted once, and so are pending focus
\* requests: the second would do what the first has done
handleVideoClick(p, asked) ==
    /\ mounted /\ isCameraOpen
    /\ IF streamRef = Null
       THEN /\ UNCHANGED <<focusPoint, camTimers, shownFor>>
            /\ camLast' = [NoStep EXCEPT !.op = "tapIgnored"]
       ELSE /\ focusPoint' = [x |-> p[1], y |-> p[2], visible |-> TRUE]
            /\ camTimers' = camTimers
                     \cup {[kind |-> "hide", id |-> 0, left |-> FocusHideDelay]}
                     \cup (IF asked THEN {[kind |-> "focus", id |-> 0, left |-> 0]} ELSE {})
            /\ shownFor' = 0
            /\ camLast' = [NoStep EXCEPT !.op = "tap"]
    /\ UNCHANGED <<mounted, isCameraOpen, isImageLoading, selectedFile, previewUrl, streamRef,
                   live, nStreams, starts, blobs, images, captures>>
    /\ CameraOnly

\* RoastForm.tsx:234-251   the applyConstraints request of a tap settles: resolved
\* (ok), or rejected, caught and logged with console.debug
handleVideoClick_focusSettled(ok) ==
    \E t \in camTimers :
      /\ t.kind = "focus"
      /\ camTimers' = camTimers \ {t}
      /\ camLast' = (IF ok THEN NoStep ELSE [NoStep EXCEPT !.op = "tapFocusFailed"])
      /\ UNCHANGED <<mounted, isCameraOpen, isImageLoading, focusPoint, selectedFile,
                     previewUrl, streamRef, live, nStreams, starts, blobs, images, captures,
                     shownFor>>
      /\ CameraOnly

\* RoastForm.tsx:221-223   the timer set by a tap fires
hideFocus ==
    \E t \in camTimers :
      /\ t.kind = "hide" /\ t.left = 0
      /\ camTimers' = camTimers \ {t}
      /\ focusPoint' = SetState(focusPoint, IF focusPoint # NoFocus
                                            THEN [focusPoint EXCEPT !.visible = FALSE]
                                            ELSE NoFocus)
      /\ camLast' = [NoStep EXCEPT !.op = "hideFocus"]
      /\ UNCHANGED <<mounted, isCameraOpen, isImageLoading, selectedFile, previewUrl, streamRef,
                     live, nStreams, starts, blobs, images, captures, shownFor>>
      /\ CameraOnly

\* RoastForm.tsx:256-263   the form is unmounted (App.tsx:154-158 renders it only while
\* nothing is loading, shown or failed): the cleanup stops the tracks of the held
\* stream. React drops the state of the form, and the timers that only set it have
\* nothing left to change; the refs live on in the closures of what is still pending
unmount ==
    /\ mounted
    /\ mounted' = FALSE
    /\ live' = live \ {streamRef}
    /\ isCameraOpen' = FALSE
    /\ isImageLoading' = FALSE
    /\ focusPoint' = NoFocus
    /\ selectedFile' = Null
    /\ previewUrl' = Null
    /\ shownFor' = -1
    /\ camTimers' = {t \in camTimers : t.kind = "release"}
    /\ camLast' = [NoStep EXCEPT !.op = "unmount"]
    /\ UNCHANGED <<streamRef, nStreams, starts, blobs, images, captures>>
    /\ CameraOnly

\* the larger and the smaller of two numbers
Max(a, b) == IF a >= b THEN a ELSE b
Min(a, b) == IF a <= b THEN a ELSE b

\* d milliseconds pass for the form, while a tap's timer or indicator counts them
camAdvance(d) ==
    /\ camTimers' = {[t EXCEPT !.left = Max(0, t.left - d)] : t \in camTimers}
    /\ shownFor' = (IF shownFor < 0 THEN shownFor ELSE Min(FocusHideDelay, shownFor + d))
    /\ camTimers' # camTimers \/ shownFor' # shownFor
    /\ camLast' = NoStep
    /\ UNCHANGED <<mounted, isCameraOpen, isImageLoading, focusPoint, selectedFile, previewUrl,
                   streamRef, live, nStreams, starts, blobs, images, captures>>
    /\ CameraOnly

----------------------------------------------------------------------------
(* Specification of the camera session *)

\* the sound service as the module is loaded (soundService.ts:1-5), on a browser
\* without audio
SoundAtRest ==
    /\ platform = "none"
    /\ audioCtx = Null
    /\ ctxState = "none"
    /\ ctxCreated = 0
    /\ resuming = FALSE
    /\ musicEnabled = FALSE
    /\ nextNoteTime = 0
    /\ timerID = Null
    /\ timers = {}
    /\ nextTimer = 1
    /\ now = 0
    /\ currentTime = 0
    /\ slots = <<>>
    /\ toggles = 0
    /\ advances = 0
    /\ lastToggle = [enable |-> FALSE, outcome |-> "none"]
    /\ last = [op |-> "init", enable |-> FALSE, outcome |-> "returned", caught |-> FALSE]

InitCamera ==
    /\ SoundAtRest
    /\ ShotAtRest
    /\ AppAtRest
    /\ TapAtRest
    /\ hasMediaDevices \in BOOLEAN
    /\ CameraAtRest

\* the camera session with cameras whose focus requests succeed and whose taps ask
\* for none (NextFocus below explores the others, with fewer calls)
NextCamera ==
    \/ startCamera
    \/ \E i \in 1..Len(starts) : startCamera_afterDelay(i)
    \/ \E i \in 1..Len(starts) : startCamera_attempt1(i)
    \/ \E i \in 1..Len(starts) : startCamera_attempt2(i)
    \/ \E i \in 1..Len(starts) : startCamera_focusSettled(i, TRUE)
    \/ handleStopCamera
    \/ capturePhoto
    \/ toBlobCallback
    \/ processingDone
    \/ clearFile
    \/ \E p \in TapPoints : handleVideoClick(p, FALSE)
    \/ hideFocus
    \/ unmount
    \/ \E d \in CamSteps : camAdvance(d)

SpecCamera == InitCamera /\ [][NextCamera]_vars

\* the startCamera and capturePhoto calls of a run that explores focus requests
MaxFocusStarts == 1
MaxFocusCaptures == 1

\* the camera session with focus requests that are issued by taps and that fail
NextFocus ==
    \/ Len(starts) < MaxFocusStarts /\ startCamera
    \/ \E i \in 1..Len(starts) : startCamera_afterDelay(i)
    \/ \E i \in 1..Len(starts) : startCamera_attempt1(i)
    \/ \E i \in 1..Len(starts) : startCamera_attempt2(i)
    \/ \E i \in 1..Len(starts), ok \in BOOLEAN : startCamera_focusSettled(i, ok)
    \/ handleStopCamera
    \/ captures < MaxFocusCaptures /\ capturePhoto
    \/ toBlobCallback
    \/ processingDone
    \/ clearFile
    \/ \E p \in TapPoints, asked \in BOOLEAN : handleVideoClick(p, asked)
    \/ \E ok \in BOOLEAN : handleVideoClick_focusSettled(ok)
    \/ hideFocus
    \/ unmount
    \/ \E d \in CamSteps : camAdvance(d)

SpecFocus == InitCamera /\ [][NextFocus]_vars

----------------------------------------------------------------------------
(* Claims about the camera session *)

\* C11: once the form is unmounted and no startCamera call is still running, no
\* acquired stream has an active track -- whether the unmount came while the camera
\* view was open or while an acquisition was in flight
C11_UnmountReleasesCamera == (~mounted /\ InFlight = {}) => live = {}

\* C12: while a startCamera call has neither opened the camera nor given up, no
\* second startCamera is under way (so it requests no acquisition) and no
\* capturePhoto is performed
C12_NoOverlapWhileOpening ==
    /\ Cardinality(Opening) <= 1
    /\ camLast.op = "capturePhoto" => ~camLast.opening

\* C13: every acquired stream that still has an active track is the one streamRef
\* holds, so at most one stream is active and none is orphaned
C13_OnlyHeldStreamLive == \A s \in live : s = streamRef

\* the acquisition error of the given name
ErrorNamed(name) == CHOOSE e \in AcquisitionErrors : e.name = name

\* C14: when startCamera fails with both acquisition attempts rejected for the same
\* reason, the message alerted is the one of that reason's category; only an error
\* of no known category gives the generic message
C14_MessageMatchesErrorKind ==
    (camLast.op = "startFailed" /\ camLast.e1 = camLast.e2)
        => camLast.msg = ErrorMessage(ErrorNamed(camLast.e2))

C17_CaptureClosesWithOneImage ==
    camLast.op \in {"blob", "noBlob"} => (~isCameraOpen /\ images = 1)

\* C18: after stopCamera -- from the Cancel button, from a failed startCamera or from
\* a capture -- the stream that was held has no active track, streamRef is null, the
\* focus indicator is cleared and the camera view is closed; a closed mounted form
\* is already in that state, so stopping it again changes nothing
C18_StopCameraCloses ==
    /\ camLast.op \in {"handleStopCamera", "startFailed", "blob"}
         => /\ camLast.held \notin live
            /\ streamRef = Null
            /\ focusPoint = NoFocus
            /\ ~isCameraOpen
    /\ (mounted /\ ~isCameraOpen) => (streamRef = Null /\ focusPoint = NoFocus)

\* Cancel was pressed with a stream held, right after a tap had shown the indicator
C18_Witness ==
    /\ camLast.op = "handleStopCamera" /\ camLast.held # Null /\ mounted
    /\ \E t \in camTimers : t.kind = "hide" /\ t.left = FocusHideDelay
    /\ focusPoint = NoFocus /\ streamRef = Null

\* C19: from a tap on the open camera view until FocusHideDelay milliseconds after
\* it (or until the camera is stopped), the focus indicator is visible -- also when
\* an earlier tap's timer runs out in between
C19_IndicatorShownFullDuration ==
    (shownFor >= 0 /\ shownFor < FocusHideDelay)
        => (focusPoint # NoFocus /\ focusPoint.visible)

----------------------------------------------------------------------------
(* Part 3: one captured frame, RoastForm.tsx:179-203 *)

\* the largest width and height of the video frames explored, in pixels
MaxWidth == 2
MaxHeight == 2
\* the pixel values of the video frames explored
PixelValues == {0, 1, 2}
\* the step of the lossy JPEG quantisation: a pixel value is kept only up to it
JpegStep == 2

\* a canvas pixel nothing was drawn on
Blank == 0

\* the bitmaps of width w and height h: h rows of w pixel values
Bitmaps(w, h) == [1..h -> [1..w -> PixelValues]]
\* the video frames handed to capturePhoto
Frames == UNION {Bitmaps(w, h) : w \in 1..MaxWidth, h \in 1..MaxHeight}

Height(b) == Len(b)
Width(b) == IF Len(b) = 0 THEN 0 ELSE Len(b[1])

\* plain drawImage: no transformation set on the context
DeviceX_noFlip(x, w) == x

\* RoastForm.tsx:184-185   context.translate(canvas.width, 0); context.scale(-1, 1):
\* the canvas abscissa of the point of abscissa x of the drawn image
DeviceX(x, w) == w + (-1) * x

\* RoastForm.tsx:187   drawImage(video, 0, 0, w, h): the canvas column (from 0) that
\* column i (from 0) of the image lands on, its two edges being transformed
DestColumn(i, w) == Min(DeviceX(i, w), DeviceX(i + 1, w))

\* RoastForm.tsx:181-187   the canvas after capturePhoto has sized it to the frame
\* and drawn the frame on it; what lands outside the canvas is clipped
DrawMirrored(f) ==
    [y \in 1..Height(f) |->
       [c \in 1..Width(f) |->
          IF \E i \in 1..Width(f) : DestColumn(i - 1, Width(f)) = c - 1
          THEN f[y][CHOOSE i \in 1..Width(f) : DestColumn(i - 1, Width(f)) = c - 1]
          ELSE Blank]]

\* RoastForm.tsx:189, 203   canvas.toBlob(..., 'image/jpeg'): the picture the JPEG
\* decodes to has the size of the canvas and its pixels up to the quantisation
EncodeJpeg(b) ==
    [y \in 1..Height(b) |-> [x \in 1..Width(b) |-> (b[y][x] \div JpegStep) * JpegStep]]

\* RoastForm.tsx:181-187   capturePhoto draws the current frame
drawFrame ==
    /\ canvas = NoBitmap
    /\ canvas' = DrawMirrored(frame)
    /\ UNCHANGED <<frame, blob, soundVars, camVars, appVars, tapVars>>

\* RoastForm.tsx:189-203   the encoder hands over the blob
encodeJpeg ==
    /\ canvas # NoBitmap /\ blob = NoBitmap
    /\ blob' = EncodeJpeg(canvas)
    /\ UNCHANGED <<frame, canvas, soundVars, camVars, appVars, tapVars>>

InitShot ==
    /\ SoundAtRest
    /\ hasMediaDevices = TRUE
    /\ CameraAtRest
    /\ AppAtRest
    /\ TapAtRest
    /\ frame \in Frames
    /\ canvas = NoBitmap
    /\ blob = NoBitmap

NextShot ==
    \/ drawFrame
    \/ encodeJpeg

SpecShot == InitShot /\ [][NextShot]_vars

----------------------------------------------------------------------------
(* Claims about the captured frame *)

\* bitmap m has the size of bitmap f and is its left-right mirror
IsMirrorOf(m, f) ==
    /\ Height(m) = Height(f)
    /\ Width(m) = Width(f)
    /\ \A y \in 1..Height(f) : \A x \in 1..Width(f) : m[y][x] = f[y][Width(f) + 1 - x]

\* C20 as stated: the captured image (the JPEG) has the size of the source frame, its
\* pixel (x, y) is the source's pixel (W-1-x, y), and mirroring it again gives the source
C20_CapturedImageIsExactMirror ==
    blob # NoBitmap => (IsMirrorOf(blob, frame) /\ DrawMirrored(blob) = frame)

\* C20, amended: the bitmap drawn on the canvas has the size of the source frame, its
\* pixel (x, y) is the source's pixel (W-1-x, y), and mirroring it again gives the
\* source; the JPEG made from it has the same size
C20_CanvasIsExactMirror ==
    /\ canvas # NoBitmap => (IsMirrorOf(canvas, frame) /\ DrawMirrored(canvas) = frame)
    /\ blob # NoBitmap => (Height(blob) = Height(frame) /\ Width(blob) = Width(frame))

\* a frame of full width whose two ends differ was drawn and encoded, and the encoding
\* changed it
C20_Witness ==
    /\ blob # NoBitmap /\ blob # canvas
    /\ Width(frame) = MaxWidth /\ Height(frame) = MaxHeight
    /\ frame[1][1] # frame[1][MaxWidth]
    /\ canvas[1][1] = frame[1][MaxWidth]

----------------------------------------------------------------------------
(* Part 4: the submission flow, App.tsx and the generateRoast service *)

\* number of submissions a run makes
MaxSubmissions == 2

\* constants.ts:182   the object a well-formed response text parses to
RoastData == 1
\* App.tsx:30   a File the form hands over with a submission
SomeFile == 1
\* App.tsx:41   the message of an error that carries none
FallbackMessage == "Something went wrong."
\* constants.ts:186
GenericFailure == "Failed to generate roast. Please try again."
\* constants.ts:180
NoResponse == "No response from AI"
\* a value that is undefined: response.text of a response without text, the message
\* of the ProgressEvent a FileReader fails with
Undefined == "undefined"

\* constants.ts:6   LANGUAGES
Languages == {"English", "Hindi", "Roman Urdu"}
\* constants.ts:179   the texts a response carries: none, the empty text, a text that
\* is not JSON, the JSON literal null, a JSON object
ResponseTexts == {Undefined, "", "{", "null", "{roast}"}
\* constants.ts:161-177   what the generateContent request comes to: the promise
\* rejects (network, quota, key) or resolves with a response
BackendOutcomes ==
    {[threw |-> TRUE, text |-> Undefined]} \cup {[threw |-> FALSE, text |-> t] : t \in ResponseTexts}

\* constants.ts:182   JSON.parse: the value, or a SyntaxError
JSONParse(text) ==
    IF text = "{roast}" THEN [ok |-> TRUE, data |-> RoastData, err |-> "none"]
    ELSE IF text = "null" THEN [ok |-> TRUE, data |-> Null, err |-> "none"]
    ELSE [ok |-> FALSE, data |-> Null, err |-> "SyntaxError"]

\* constants.ts:161-182   the body of the try block: the awaited request, the check of
\* the text, the parse; err is the message of what it throws
TryBody(o) ==
    IF o.threw THEN [ok |-> FALSE, data |-> Null, err |-> "request failed"]
    ELSE IF o.text = Undefined \/ o.text = "" THEN [ok |-> FALSE, data |-> Null, err |-> NoResponse]
    ELSE JSONParse(o.text)

\* generateRoast without its catch block: what the try block throws escapes as it is
generateRoast_noCatch(o) == TryBody(o)

\* constants.ts:160-187   generateRoast from the request on: the catch block replaces
\* whatever the try block threw by the one generic error
generateRoast(o) ==
    IF TryBody(o).ok THEN TryBody(o)
    ELSE [ok |-> FALSE, data |-> Null, err |-> GenericFailure]

\* App.tsx:41   err.message || "Something went wrong."
ErrorText(message) == IF message \in {Undefined, ""} THEN FallbackMessage ELSE message

\* the form rendered whenever there is neither a result nor an error, loading or not
FormShown_ignoresLoading(loading, res, err) == res = Null /\ err = NoError

\* App.tsx:154   the form is rendered
FormShown(loading, res, err) == ~loading /\ res = Null /\ err = NoError

\* App.tsx:154-158   the RoastForm instance is unmounted when the form is no longer
\* rendered and a fresh one is mounted when it is rendered again: the description, the
\* file, the preview and the loading state of the instance are gone with it
\* (RoastForm.tsx:15-19), and its pending processing callbacks set the state of an
\* unmounted component, which has no effect. The camera is closed in the runs of the
\* App.
RenderForm ==
    /\ mounted' = FormShown(isLoading', result', error')
    /\ IF mounted /\ ~mounted'
       THEN /\ textInput' = <<>>
            /\ selectedFile' = Null
            /\ previewUrl' = Null
            /\ isImageLoading' = FALSE
            /\ camTimers' = {t \in camTimers : t.kind # "process"}
       ELSE UNCHANGED <<textInput, selectedFile, previewUrl, isImageLoading, camTimers>>
    /\ camLast' = NoStep
    /\ UNCHANGED <<hasMediaDevices, isCameraOpen, focusPoint, streamRef, live, nStreams, starts,
                   blobs, images, captures, shownFor>>

\* handleRoastSubmit without its finally block: the loading state is never left
SubmitFailed_noFinally(message, o) ==
    /\ error' = ErrorText(message)
    /\ isLoading' = isLoading
    /\ appPc' = "idle"
    /\ appLast' = [op |-> "failed", err |-> message, out |-> o]
    /\ UNCHANGED <<result, currentLanguage, requests, submissions>>
    /\ RenderForm
    /\ UNCHANGED <<soundVars, shotVars, tapVars>>

\* App.tsx:40-44   the end of handleRoastSubmit after generateRoast rejected with an
\* error of the given message
SubmitFailed(message, o) ==
    /\ error' = ErrorText(message)
    /\ isLoading' = FALSE
    /\ appPc' = "idle"
    /\ appLast' = [op |-> "failed", err |-> message, out |-> o]
    /\ UNCHANGED <<result, currentLanguage, requests, submissions>>
    /\ RenderForm
    /\ UNCHANGED <<soundVars, shotVars, tapVars>>

\* App.tsx:30-37, constants.ts:116-161   what a call onSubmit(mode, language, text,
\* file) of the form (RoastForm.tsx:272), which is handleRoastSubmit (App.tsx:156),
\* does to the App: up to the first await of generateRoast, which is the read of the
\* image when there is one and the backend request when there is none
onSubmit(language, file) ==
    /\ submissions' = submissions + 1
    /\ isLoading' = TRUE
    /\ error' = NoError
    /\ result' = Null
    /\ currentLanguage' = language
    /\ IF file # Null
       THEN appPc' = "reading" /\ requests' = 0
       ELSE appPc' = "requesting" /\ requests' = 1
    /\ appLast' = [NoAppStep EXCEPT !.op = "submit"]
    /\ RenderForm

\* App.tsx:30-37   handleRoastSubmit(mode, language, text, file), called by a mounted
\* form with some description and file
handleRoastSubmit(language, file) ==
    /\ mounted /\ FormShown(isLoading, result, error)
    /\ submissions < MaxSubmissions
    /\ onSubmit(language, file)
    /\ UNCHANGED <<soundVars, shotVars, tapVars>>

\* constants.ts:129, 190-202   fileToBase64 settles: onload resolves and the request is
\* issued (161); onerror rejects with the event, which is outside the try block and
\* leaves generateRoast as it is
fileRead ==
    /\ appPc = "reading"
    /\ \/ /\ appPc' = "requesting"
          /\ requests' = requests + 1
          /\ appLast' = [NoAppStep EXCEPT !.op = "read"]
          /\ UNCHANGED <<result, isLoading, error, currentLanguage, submissions>>
          /\ UNCHANGED <<soundVars, camVars, shotVars, tapVars>>
       \/ SubmitFailed(Undefined, NoOutcome)

\* constants.ts:177-187, App.tsx:37-44   the backend request settles with outcome o and
\* handleRoastSubmit runs to its end
backendSettles(o) ==
    /\ appPc = "requesting"
    /\ IF generateRoast(o).ok
       THEN /\ result' = generateRoast(o).data
            /\ Effect("playSuccess")
            /\ isLoading' = FALSE
            /\ appPc' = "idle"
            /\ appLast' = [op |-> "succeeded", err |-> "none", out |-> o]
            /\ UNCHANGED <<error, currentLanguage, requests, submissions>>
            /\ RenderForm
            /\ UNCHANGED <<shotVars, tapVars>>
       ELSE SubmitFailed(generateRoast(o).err, o)

\* App.tsx:47-50   handleReset(), the button of the result view (160-165)
handleReset ==
    /\ result # Null
    /\ result' = Null
    /\ error' = NoError
    /\ appLast' = NoAppStep
    /\ UNCHANGED <<isLoading, currentLanguage, appPc, requests, submissions>>
    /\ RenderForm
    /\ UNCHANGED <<soundVars, shotVars, tapVars>>

\* App.tsx:145   the Try Again button of the error box (140)
tryAgain ==
    /\ error # NoError
    /\ error' = NoError
    /\ appLast' = NoAppStep
    /\ UNCHANGED <<result, isLoading, currentLanguage, appPc, requests, submissions>>
    /\ RenderForm
    /\ UNCHANGED <<soundVars, shotVars, tapVars>>

NextApp ==
    \/ \E language \in Languages, file \in {Null, SomeFile} : handleRoastSubmit(language, file)
    \/ fileRead
    \/ \E o \in BackendOutcomes : backendSettles(o)
    \/ handleReset
    \/ tryAgain

SpecApp == Init /\ [][NextApp]_vars

----------------------------------------------------------------------------
(* Claims about the submission flow *)

\* C21 as stated: when a submission has ended, exactly one backend request was made
\* for it; if it failed, the App is not loading, has no result and shows one
\* error message, and no request is made outside a submission
C21_ExactlyOneRequestPerSubmission ==
    /\ appLast.op \in {"failed", "succeeded"} => requests = 1
    /\ appLast.op = "failed" => (~isLoading /\ result = Null /\ error # NoError)
    /\ requests <= 1

\* C21 as amended: a submission makes at most one backend request, exactly one unless
\* reading the image failed, and then none; a failed submission, whichever way it
\* failed, leaves the App not loading, with no result, one error message shown and
\* no call in flight
C21_AtMostOneRequestPerSubmission ==
    /\ requests <= 1
    /\ appLast.op = "succeeded" => requests = 1
    /\ appLast.op = "failed" =>
         /\ requests = (IF appLast.err = Undefined THEN 0 ELSE 1)
         /\ ~isLoading /\ result = Null /\ error # NoError /\ appPc = "idle"
         /\ error = ErrorText(appLast.err)

\* a submission whose backend request failed has ended
C21_Witness == appLast.op = "failed" /\ requests = 1 /\ submissions = MaxSubmissions

\* constants.ts:179-182   the response is unusable: the request threw, the text is
\* missing or empty, or the text is not JSON
Unusable(o) == o.threw \/ o.text \in {Undefined, ""} \/ ~JSONParse(o.text).ok

\* C22: whenever a backend request has settled, generateRoast rejected with the one
\* generic failure error if the request threw, the text was missing or empty or the
\* text did not parse, and it returned a result, the parsed text, only otherwise
C22_UnusableResponseIsGenericFailure ==
    appLast.out # NoOutcome =>
      /\ Unusable(appLast.out) => (appLast.op = "failed" /\ appLast.err = GenericFailure)
      /\ appLast.op = "succeeded" =>
           (~Unusable(appLast.out) /\ result = JSONParse(appLast.out.text).data)
      /\ appLast.op \in {"failed", "succeeded"}

\* a response whose text is not JSON has been turned into the generic failure
C22_Witness ==
    /\ appLast.op = "failed" /\ appLast.out = [threw |-> FALSE, text |-> "{"]
    /\ error = GenericFailure

----------------------------------------------------------------------------
(* Claims about the music scheduler, continued *)

\* the slots a step emits
Emitted == { slots'[i] : i \in (Len(slots) + 1)..Len(slots') }
\* the callbacks a step takes from the browser's pending ones
Fired == timers \ timers'
\* soundService.ts:7-8   a callback fires on time: less than the look-ahead window
\* minus the poll interval after it was due
OnTime(t) == now - t.due < SCHEDULE_AHEAD_TIME - PollInterval

C24_CallbackPendingAfterTick ==
    (last.op = "tick" /\ musicEnabled /\ audioCtx # Null) => timers # {}

\* C25: a scheduler tick that runs while the music is enabled and a context exists
\* emits only slots below clock + look-ahead, a first one at nextNoteTime when that
\* is below the bound, ends with nextNoteTime at or beyond the bound and schedules
\* exactly one new callback, due after the poll interval
C25_TickDrainsWindow ==
    [][ (Fired # {} /\ last'.op = "tick" /\ musicEnabled /\ audioCtx' # Null) =>
          /\ \A s \in Emitted : s.time < currentTime + SCHEDULE_AHEAD_TIME
          /\ nextNoteTime < currentTime + SCHEDULE_AHEAD_TIME =>
               \E s \in Emitted : s.time = nextNoteTime
          /\ nextNoteTime' >= currentTime + SCHEDULE_AHEAD_TIME
          /\ Cardinality(timers' \ timers) = 1
          /\ \A t \in timers' \ timers : t.due = now + PollInterval
      ]_vars

\* a toggleBackgroundMusic(true) call that found an audio context and returned
EnabledWithContext ==
    /\ toggles' = toggles + 1
    /\ lastToggle'.enable /\ lastToggle'.outcome = "returned"
    /\ audioCtx' # Null

\* the slots emitted so far in the running period of the last toggle call
OfThisPeriod == { i \in 1..Len(slots) : slots[i].period = toggles }

\* C26: toggleBackgroundMusic(true) with an audio context sets nextNoteTime to the
\* engine clock plus 0.1 s, emits nothing itself and leaves a new scheduler callback
\* pending; nextNoteTime then stays as it is until a slot is emitted, and the first
\* slot emitted after the call has the time nextNoteTime had
C26_FirstSlotAfterLeadIn ==
    [][ /\ EnabledWithContext =>
             /\ nextNoteTime' = currentTime + Sec \div 10
             /\ Emitted = {}
             /\ \E t \in timers' \ timers : t.id = timerID'
        /\ (toggles' = toggles /\ Emitted = {}) => nextNoteTime' = nextNoteTime
        /\ (toggles' = toggles /\ Emitted # {} /\ OfThisPeriod = {}) =>
             slots'[Len(slots) + 1].time = nextNoteTime
      ]_vars

\* the music was enabled a second time and the first slot after that call has
\* been emitted, 0.1 s after the clock of the call
C26_Witness ==
    /\ toggles > 1 /\ lastToggle.enable /\ currentTime > 0
    /\ Len(slots) > 0 /\ slots[Len(slots)].period = toggles
    /\ \A i \in 1..(Len(slots) - 1) : slots[i].period # toggles
    /\ slots[Len(slots)].time = Sec \div 10

\* soundService.ts:261-262   the amounts nextNoteTime advances by after a slot
SlotAdvances == { QuarterNote + Swing(r) : r \in RandomSamples }

\* the value nextNoteTime took after slot i: the time of the next slot of the same
\* running period, or nextNoteTime itself after the last slot of the current period;
\* -1 when a toggle call came in between
AfterSlot(i) ==
    IF i < Len(slots)
    THEN (IF slots[i + 1].period = slots[i].period THEN slots[i + 1].time ELSE -1)
    ELSE (IF slots[i].period = toggles THEN nextNoteTime ELSE -1)

\* C27: after a slot that is a rest, as after a slot that sounds, nextNoteTime has
\* advanced by a quarter note plus a swing: the advance is the same for both
C27_RestAdvancesLikeSound ==
    \A i \in 1..Len(slots) :
      (slots[i].kind \in {"rest", "sound"} /\ AfterSlot(i) # -1) =>
        AfterSlot(i) - slots[i].time \in SlotAdvances

\* a rest was emitted and a sounding slot after it, in one running period
C27_Witness ==
    \E i \in 1..(Len(slots) - 1) :
      /\ slots[i].kind = "rest" /\ slots[i + 1].kind = "sound"
      /\ slots[i + 1].period = slots[i].period

\* C28: a sound-effect call leaves musicEnabled, nextNoteTime and timerID as they
\* are, and with them the pending callbacks and the slots emitted (asked of every
\* step after which the last operation is a sound effect: the effect calls, and the
\* clock and resume steps that follow one)
C28_EffectsLeaveSchedulerAlone ==
    [][ last'.op = "effect" =>
          UNCHANGED <<musicEnabled, nextNoteTime, timerID, timers, nextTimer, slots>>
      ]_vars

\* a sound effect was played while the music runs: a callback is pending and slots
\* have been emitted
C28_Witness ==
    /\ last.op = "effect"
    /\ musicEnabled /\ timerID # Null /\ timers # {} /\ Len(slots) > 0

----------------------------------------------------------------------------
(* Claims about the camera session, continued *)

\* C30: on a platform without the camera API no startCamera call ever issues an
\* acquisition request, so no stream is handed out or held and the camera view
\* stays closed; a call that has passed its wait has reported the
\* capability-unsupported message, once, and only such a platform is told so
C30_NoCapabilityNoRequest ==
    /\ ~hasMediaDevices =>
         /\ \A i \in 1..Len(starts) : starts[i].pc \in {"delay", "done"}
         /\ camLast.op \notin {"request1", "request2", "opened", "startFailed"}
         /\ nStreams = 0 /\ live = {} /\ streamRef = Null /\ ~isCameraOpen
    /\ camLast.op = "unsupported" =>
         /\ ~hasMediaDevices
         /\ camLast.msg = UnsupportedMessage /\ camLast.alerted = 1

\* every startCamera call made on a platform without the camera API has ended with
\* the message
C30_Witness ==
    /\ ~hasMediaDevices /\ camLast.op = "unsupported"
    /\ Len(starts) = MaxStarts /\ InFlight = {}

\* what a user of the form sees of the session: the views, the file and the stream
SessionState == <<mounted, isCameraOpen, isImageLoading, focusPoint, selectedFile, previewUrl,
                  streamRef, live>>

\* C31 as stated: when the continuous-focus request of startCamera fails, the call
\* ends with the camera view open and the stream held and active, and no message;
\* when the focus request of a tap fails, the session is left as it was
C31_FocusFailureLeavesOpen ==
    [][ /\ camLast'.op = "focusFailed" =>
             /\ isCameraOpen' /\ streamRef' # Null /\ streamRef' \in live'
             /\ camLast'.alerted = 0 /\ camLast'.msg = "none"
        /\ camLast'.op = "tapFocusFailed" =>
             /\ UNCHANGED SessionState
             /\ camLast'.alerted = 0 /\ camLast'.msg = "none"
      ]_vars

\* C31 as amended: a failing focus request, of startCamera or of a tap, leaves the
\* session as it was when the request failed and shows no message; the session is
\* then open with the stream held unless it was closed while the request was pending
C31_FocusFailureChangesNothing ==
    [][ camLast'.op \in {"focusFailed", "tapFocusFailed"} =>
          /\ UNCHANGED SessionState
          /\ camLast'.alerted = 0 /\ camLast'.msg = "none"
      ]_vars

\* the focus request of startCamera has failed and the camera view is open on the
\* stream the call obtained
C31_Witness ==
    /\ camLast.op = "focusFailed"
    /\ mounted /\ isCameraOpen /\ streamRef # Null /\ streamRef \in live
    /\ InFlight = {}

----------------------------------------------------------------------------
(* RoastForm.tsx:208-254, the focus request of one tap *)

MaxRect == 3

\* the bounding rectangles of the camera view
Rects == [left : {0, 2}, top : {0, 1}, width : 1..MaxRect, height : 1..MaxRect]

\* RoastForm.tsx:343-345   the clicks delivered to the view (its overflow is hidden):
\* the pointer is on the rectangle of the view
TapsOn(r) ==
    {[caps |-> c, clientX |-> cx, clientY |-> cy, rect |-> r] :
        c \in FocusCaps, cx \in r.left..(r.left + r.width), cy \in r.top..(r.top + r.height)}

Taps == UNION {TapsOn(r) : r \in Rects}

\* capabilities.focusMode of a track: the modes it lists (none when the track has no
\* getCapabilities, or its capabilities have no focusMode)
FocusModes(caps) ==
    CASE caps = "continuous" -> {"continuous"}
      [] caps = "manual"     -> {"manual"}
      [] caps = "both"       -> {"continuous", "manual"}
      [] caps = "other"      -> {"single-shot"}
      [] OTHER               -> {}

\* the number n / d
Ratio(n, d) == [num |-> n, den |-> d]

\* handleVideoClick with `if` in place of the `else if` of line 239
TapRequest_noElse(t) ==
    LET x == t.clientX - t.rect.left
        y == t.clientY - t.rect.top
        continuous == IF "continuous" \in FocusModes(t.caps)
                      THEN << [focusMode |-> "continuous", pointsOfInterest |-> <<>>] >>
                      ELSE <<>>
        manual == IF "manual" \in FocusModes(t.caps)
                  THEN << [focusMode |-> "manual",
                           pointsOfInterest |-> << [x |-> Ratio(x, t.rect.width),
                                                    y |-> Ratio(y, t.rect.height)] >>] >>
                  ELSE <<>>
    IN  IF t.caps = "noapi" THEN <<>> ELSE continuous \o manual

\* RoastForm.tsx:212-249   the applyConstraints calls of handleVideoClick for tap t
TapRequest(t) ==
    LET x == t.clientX - t.rect.left
        y == t.clientY - t.rect.top
    IN  IF t.caps = "noapi" THEN <<>>
        ELSE IF "continuous" \in FocusModes(t.caps)
        THEN << [focusMode |-> "continuous", pointsOfInterest |-> <<>>] >>
        ELSE IF "manual" \in FocusModes(t.caps)
        THEN << [focusMode |-> "manual",
                 pointsOfInterest |-> << [x |-> Ratio(x, t.rect.width),
                                          y |-> Ratio(y, t.rect.height)] >>] >>
        ELSE <<>>

\* RoastForm.tsx:208-254   handleVideoClick for tap t on an open session, its focus
\* request only (its indicator is the handleVideoClick action above); one tap is followed
handleVideoClick_request(t) ==
    /\ tapIn = NoTap
    /\ tapIn' = t
    /\ tapOut' = TapRequest(t)
    /\ UNCHANGED <<soundVars, camVars, shotVars, appVars>>

NextTap == \E t \in Taps : handleVideoClick_request(t)

SpecTap == Init /\ [][NextTap]_vars

\* the number q lies in [0, 1]
InUnit(q) == q.den > 0 /\ 0 <= q.num /\ q.num <= q.den

\* C32: a tap makes at most one focus request: a continuous-focus request when the
\* track supports continuous mode; when it does not and supports manual mode, a
\* manual-focus request with one point of interest whose coordinates lie in [0, 1];
\* none when it supports neither
C32_OneFocusRequestPerTap ==
    tapIn # NoTap =>
      /\ Len(tapOut) <= 1
      /\ tapIn.caps \in {"continuous", "both"} =>
           (Len(tapOut) = 1 /\ tapOut[1].focusMode = "continuous")
      /\ tapIn.caps = "manual" =>
           /\ Len(tapOut) = 1
           /\ tapOut[1].focusMode = "manual"
           /\ Len(tapOut[1].pointsOfInterest) = 1
           /\ InUnit(tapOut[1].pointsOfInterest[1].x)
           /\ InUnit(tapOut[1].pointsOfInterest[1].y)
      /\ tapIn.caps \in {"noapi", "nofocus", "other"} => tapOut = <<>>

\* a tap off the corner of a view that is not at the origin, on a track that supports
\* manual mode only, made its manual-focus request
C32_Witness ==
    /\ tapIn.caps = "manual"
    /\ tapIn.rect.left > 0 /\ tapIn.clientX > tapIn.rect.left /\ tapIn.clientY > tapIn.rect.top
    /\ Len(tapOut) = 1
    /\ tapOut[1].focusMode = "manual"

----------------------------------------------------------------------------
(* Claims about capture, cancel and the camera view *)

\* C33: once capturePhoto was called the session holds no active stream: the tracks
\* are stopped by the call itself, before the encoding callback runs
C33_CaptureReleasesAtOnce ==
    camLast.op = "capturePhoto" => (streamRef = Null \/ streamRef \notin live)

\* C34: an encoding callback that runs after the user cancelled the camera delivers
\* nothing: it changes neither the selected file nor the loading state
C34_NoDeliveryAfterCancel ==
    [][ (camLast.op = "handleStopCamera" /\ camLast'.op = "blob") =>
          (selectedFile' = selectedFile /\ isImageLoading' = isImageLoading)
      ]_vars

\* C35: between handlers the camera view is open exactly when the session holds a
\* stream whose tracks are active
C35_OpenIffStreamHeld ==
    isCameraOpen <=> (streamRef # Null /\ streamRef \in live)

----------------------------------------------------------------------------
(* Claims about the states of the App and the submit button *)

\* C36: the App never has a result and an error at once, has neither while it is
\* loading, and while a submission is in flight the form, which alone calls
\* handleRoastSubmit, is not mounted: it is mounted only when the App is not loading
\* and has neither a result nor an error
C36_ResultErrorLoadingExclusive ==
    /\ ~(result # Null /\ error # NoError)
    /\ isLoading => (result = Null /\ error = NoError)
    /\ appPc # "idle" => (isLoading /\ ~mounted)
    /\ mounted => (~isLoading /\ result = Null /\ error = NoError)

\* a second submission is in flight after the first one failed and the user tried again
C36_Witness ==
    /\ submissions = 2
    /\ appPc = "requesting"
    /\ isLoading /\ ~mounted
    /\ result = Null /\ error = NoError

----------------------------------------------------------------------------
(* RoastForm.tsx:39-52, 265-273, 499-511: the description, the upload and the submit
   button *)

\* the descriptions typed: none, blank, and with text
Texts == { <<>>, <<" ">>, <<"a">>, <<" ", "a", " ">> }

RECURSIVE TrimStart(_)
\* String.prototype.trimStart
TrimStart(t) == IF t # <<>> /\ Head(t) = " " THEN TrimStart(Tail(t)) ELSE t

RECURSIVE TrimEnd(_)
\* String.prototype.trimEnd
TrimEnd(t) ==
    IF t # <<>> /\ t[Len(t)] = " " THEN TrimEnd(SubSeq(t, 1, Len(t) - 1)) ELSE t

\* String.prototype.trim
Trim(t) == TrimEnd(TrimStart(t))

\* RoastForm.tsx:511   the disabled attribute of the submit button
SubmitDisabled ==
    isLoading \/ isImageLoading \/ (textInput = <<>> /\ selectedFile = Null)

\* RoastForm.tsx:503   onChange of the description
setTextInput(t) ==
    /\ mounted
    /\ textInput' = t
    /\ camLast' = NoStep
    /\ UNCHANGED <<mounted, isCameraOpen, isImageLoading, focusPoint, selectedFile, previewUrl,
                   streamRef, live, nStreams, starts, blobs, camTimers, images, captures,
                   shownFor>>
    /\ UNCHANGED <<soundVars, shotVars, appVars, tapVars, hasMediaDevices>>

\* RoastForm.tsx:39-52   handleFileChange(e) with a file chosen in the dialog that the
\* Upload option (444) opened
handleFileChange ==
    /\ mounted /\ ~isCameraOpen /\ ~isImageLoading /\ previewUrl = Null
    /\ isImageLoading' = TRUE
    /\ selectedFile' = SomeFile
    /\ camTimers' = camTimers \cup {[kind |-> "process", id |-> FreshProcessId, left |-> 0]}
    /\ camLast' = NoStep
    /\ UNCHANGED <<mounted, isCameraOpen, focusPoint, previewUrl, streamRef, live, nStreams,
                   starts, blobs, images, captures, shownFor>>
    /\ CameraOnly

\* RoastForm.tsx:265-273   handleSubmit(e), a press of the enabled submit button (509)
handleSubmit ==
    /\ mounted /\ ~SubmitDisabled
    /\ submissions < MaxSubmissions
    /\ IF Trim(textInput) = <<>> /\ selectedFile = Null
       THEN /\ camLast' = [NoStep EXCEPT !.op = "handleSubmit", !.alerted = 1,
                             !.msg = "Please provide either a photo or a description!"]
            /\ UNCHANGED <<mounted, isCameraOpen, isImageLoading, focusPoint, selectedFile,
                           previewUrl, streamRef, live, nStreams, starts, blobs, camTimers,
                           images, captures, shownFor>>
            /\ CameraOnly
       ELSE /\ Effect("playClick")
            /\ \E language \in Languages : onSubmit(language, selectedFile)
            /\ UNCHANGED <<shotVars, tapVars>>

NextSubmit ==
    \/ \E t \in Texts : setTextInput(t)
    \/ handleFileChange
    \/ processingDone
    \/ clearFile
    \/ handleSubmit
    \/ fileRead
    \/ \E o \in BackendOutcomes : backendSettles(o)
    \/ handleReset
    \/ tryAgain

SpecSubmit == Init /\ [][NextSubmit]_vars

\* the description has a character that is not white space
HasText(t) == \E i \in 1..Len(t) : t[i] # " "

\* C37: onSubmit is called only with a description that has text or with a file, and
\* never while an image is loading; an enabled press with such input calls it once;
\* and, while nothing is loading, the submit button of a mounted form is enabled
\* exactly when the description has text or a file is selected
C37_ButtonEnabledIffAccepted ==
    [][ /\ submissions' # submissions =>
             /\ submissions' = submissions + 1
             /\ HasText(textInput) \/ selectedFile # Null
             /\ ~isImageLoading
        /\ (camLast'.op = "handleSubmit" /\ camLast'.alerted = 1) =>
             ~(HasText(textInput) \/ selectedFile # Null)
        /\ (mounted' /\ ~isLoading' /\ ~isImageLoading') =>
             (~SubmitDisabled' <=> (HasText(textInput') \/ selectedFile' # Null))
      ]_vars

====
